---- MODULE Spec2Model ----
(***************************************************************************)
(* A model of symbolstore.py: main's pipeline (clean, classify, dump,      *)
(* package, upload), Dumper.ProcessFile / ProcessFileWork reading the      *)
(* output of dump_syms line by line, and Upload_Symbol's retry loop.       *)
(*                                                                         *)
(* Text is modelled by TLA+ strings; the Python string operations the code *)
(* uses (startswith, split, rstrip, re.sub, os.path.join, normpath, ...)   *)
(* are computed character by character.  A file's content is the sequence  *)
(* of the strings written to it.                                           *)
(***************************************************************************)
EXTENDS Integers, Sequences, FiniteSets, TLC

(***************************************************************************)
(* Python string operations                                                *)
(***************************************************************************)

\* s[i] (1-based), as a one-character string
CharAt(s, i) == SubSeq(s, i, i)

\* s[i:] (1-based i)
From(s, i) == SubSeq(s, i, Len(s))

\* str.startswith
StartsWith(s, p) == Len(s) >= Len(p) /\ SubSeq(s, 1, Len(p)) = p

\* str.endswith
EndsWith(s, p) == Len(s) >= Len(p) /\ SubSeq(s, Len(s) - Len(p) + 1, Len(s)) = p

\* the characters str.split() and str.rstrip() treat as whitespace
IsSpace(c) == c \in {" ", "\n", "\t", "\r"}

\* sub in s
RECURSIVE Contains(_, _)
Contains(s, sub) ==
  IF Len(s) < Len(sub) THEN FALSE
  ELSE IF StartsWith(s, sub) THEN TRUE
  ELSE Contains(From(s, 2), sub)

\* str.rstrip()
RECURSIVE RStrip(_)
RStrip(s) ==
  IF Len(s) > 0 /\ IsSpace(CharAt(s, Len(s)))
  THEN RStrip(SubSeq(s, 1, Len(s) - 1))
  ELSE s

\* str.lstrip()
RECURSIVE LStrip(_)
LStrip(s) ==
  IF Len(s) > 0 /\ IsSpace(CharAt(s, 1)) THEN LStrip(From(s, 2)) ELSE s

\* length of the leading run of non-whitespace characters of s
RECURSIVE WordLen(_)
WordLen(s) ==
  IF Len(s) = 0 \/ IsSpace(CharAt(s, 1)) THEN 0 ELSE 1 + WordLen(From(s, 2))

\* str.split(None, maxsplit): maxsplit < 0 means no limit
RECURSIVE SplitWs(_, _)
SplitWs(s, maxsplit) ==
  LET t == LStrip(s) IN
  IF Len(t) = 0 THEN << >>
  ELSE IF maxsplit = 0 THEN << t >>
  ELSE LET n == WordLen(t) IN
       << SubSeq(t, 1, n) >> \o SplitWs(From(t, n + 1), maxsplit - 1)

\* str.split()
Split(s) == SplitWs(s, -1)

\* length of the leading run of characters of s other than sep
RECURSIVE FieldLen(_, _)
FieldLen(s, sep) ==
  IF Len(s) = 0 \/ CharAt(s, 1) = sep THEN 0 ELSE 1 + FieldLen(From(s, 2), sep)

\* str.split(sep, maxsplit) for a one-character sep: maxsplit < 0 means no limit
RECURSIVE SplitSep(_, _, _)
SplitSep(s, sep, maxsplit) ==
  LET n == FieldLen(s, sep) IN
  IF maxsplit = 0 \/ n = Len(s) THEN << s >>
  ELSE << SubSeq(s, 1, n) >> \o SplitSep(From(s, n + 2), sep, maxsplit - 1)

\* sep.join(parts)
RECURSIVE JoinSep(_, _)
JoinSep(parts, sep) ==
  IF Len(parts) = 0 THEN ""
  ELSE IF Len(parts) = 1 THEN parts[1]
  ELSE parts[1] \o sep \o JoinSep(Tail(parts), sep)

\* str.replace(a, b) for a one-character a
RECURSIVE Replace(_, _, _)
Replace(s, a, b) ==
  IF Len(s) = 0 THEN ""
  ELSE (IF CharAt(s, 1) = a THEN b ELSE CharAt(s, 1)) \o Replace(From(s, 2), a, b)

\* re.sub("\.pdb$", "", s) on a string without a newline
StripPdb(s) == IF EndsWith(s, ".pdb") THEN SubSeq(s, 1, Len(s) - 4) ELSE s

(***************************************************************************)
(* os.path (posixpath)                                                     *)
(***************************************************************************)

\* os.path.join(a, b)
PathJoin(a, b) ==
  IF StartsWith(b, "/") THEN b
  ELSE IF a = "" \/ EndsWith(a, "/") THEN a \o b
  ELSE a \o "/" \o b

\* the loop of posixpath.normpath over the components
RECURSIVE NormComps(_, _, _)
NormComps(comps, acc, rooted) ==
  IF Len(comps) = 0 THEN acc
  ELSE LET c == Head(comps) IN
       IF c \in {"", "."} THEN NormComps(Tail(comps), acc, rooted)
       ELSE IF c # ".." \/ (~rooted /\ Len(acc) = 0)
                        \/ (Len(acc) > 0 /\ acc[Len(acc)] = "..")
            THEN NormComps(Tail(comps), Append(acc, c), rooted)
       ELSE IF Len(acc) > 0
            THEN NormComps(Tail(comps), SubSeq(acc, 1, Len(acc) - 1), rooted)
       ELSE NormComps(Tail(comps), acc, rooted)

\* os.path.normpath, which normpath is outside Windows
normpath(path) ==
  IF path = "" THEN "."
  ELSE LET slashes == IF StartsWith(path, "//") /\ ~StartsWith(path, "///") THEN "//"
                      ELSE IF StartsWith(path, "/") THEN "/" ELSE ""
           body    == JoinSep(NormComps(SplitSep(path, "/", -1), << >>, slashes # ""), "/")
           res     == slashes \o body
       IN IF res = "" THEN "." ELSE res

\* index of the last "/" of p, 0 when there is none
RECURSIVE LastSlash(_)
LastSlash(p) ==
  IF Len(p) = 0 THEN 0
  ELSE IF CharAt(p, Len(p)) = "/" THEN Len(p)
  ELSE LastSlash(SubSeq(p, 1, Len(p) - 1))

\* os.path.basename
Basename(p) == From(p, LastSlash(p) + 1)

\* os.path.dirname, for paths whose head is not a run of slashes
Dirname(p) ==
  LET i == LastSlash(p) IN
  IF i = 0 THEN "" ELSE IF i = 1 THEN "/" ELSE SubSeq(p, 1, i - 1)

\* p and every directory above it
RECURSIVE Ancestors(_)
Ancestors(p) ==
  IF p \in {"", "/"} THEN {} ELSE {p} \cup Ancestors(Dirname(p))

\* path is dir or lies below it
Under(path, dir) == path = dir \/ StartsWith(path, dir \o "/")

(***************************************************************************)
(* Program constants and the inputs the model draws                        *)
(***************************************************************************)

\* MAX_RETRIES
MAX_RETRIES == 5

\* the outcome of a POST that raised requests.exceptions.RequestException
NoResponse == -1

\* the most lines after the MODULE line one dump_syms process prints
MaxBody == 2

\* optparse's archs when -a is not given (None)
NoArchs == "None"

\* os.environ["PDBSTR_PATH"]
PDBSTR_PATH == "pdbstr.exe"

\* a command line with the four positional arguments main needs:
\* dump_syms, the symbol store, the library, the device name
GoodArgs == << "bin/dump_syms", "out", "obj/lib.so", "dev" >>

\* the first lines a dump_syms process may print
ModuleLines ==
  { "MODULE Linux arm G1 lib.so\n",
    "MODULE windows x86 G2 app.pdb\n",
    "MODULE Linux arm G3 a.pdb.so\n",
    "MODULE Linux arm\n",
    "dump_syms: no debug info\n" }

\* the later lines a dump_syms process may print
BodyLines ==
  { "FILE 0 src//a.c\n",
    "FILE 1\n",
    "FILE 2 hg:repo:x.c:r1\n",
    "FILE 3 hgext/b.c\n",
    "INFO CODE_ID C0DE lib.so\n",
    "FUNC 10 4 0 _GLOBAL__sub_I_a\n",
    "FUNC 20 4 0 `dynamic initializer for 'x'\n",
    "PUBLIC 30 0 f\n" }

\* subprocess.call did not start the tool and raised OSError
NoSuchTool == -1

\* the status codes the symbol server may answer with
Statuses == { 100, 200, 204, 299, 300, 302, 404, 499, 500, 503, 599 }

\* what one requests.post may end in
PostOutcomes == Statuses \cup { NoResponse }

(***************************************************************************)
(* State                                                                   *)
(***************************************************************************)

VARIABLES
  pc,         \* where the program is
  exc,        \* the exception propagating out of main ("" when none)
  exit_code,  \* the process's exit code, once pc = "exit"
  args,       \* optparse's positional arguments
  options,    \* optparse's options
  files,      \* the file system's regular files: path -> the strings written
  dirs,       \* the file system's directories
  removed,    \* the directories main's shutil.rmtree calls removed
  invoked,    \* the dump_syms command lines run so far (their arch argument)
  arch_num,   \* ProcessFile's loop index
  w,          \* ProcessFileWork's locals
  stderr,     \* what was printed to sys.stderr
  perfherder, \* the constructor counts reported as PERFHERDER_DATA
  archive,    \* the members of the zip made by shutil.make_archive
  i,          \* Upload_Symbol's attempt number
  r,          \* Upload_Symbol's last response (its status code)
  posts,      \* the outcome of every requests.post so far
  upload_ret, \* Upload_Symbol's return value ("" before it returns)
  main_ret,   \* main's return value ("" before it returns)
  platform,   \* platform.system(): the Dumper subclass in use
  stdout,     \* the paths the dumper printed to sys.stdout
  calls,      \* the stages entered so far, in order
  reads,      \* what dump_syms' stdout gave at every read of this run ("" at its end)
  run,        \* 1 in the first run of the script, 2 when it is run again
  first       \* what the first run left: its reads, files and exception

vars == << pc, exc, exit_code, args, options, files, dirs, removed, invoked,
           arch_num, w, stderr, perfherder, archive, i, r, posts, upload_ret,
           main_ret, platform, stdout, calls, reads, run, first >>

mainVars   == << args, options, removed, archive, main_ret, exit_code >>
dumpVars   == << invoked, arch_num, w, perfherder >>
uploadVars == << i, r, posts, upload_ret >>
envVars    == << platform, run, first >>

(***************************************************************************)
(* main's names                                                            *)
(***************************************************************************)

\* self.dump_syms (os.path.abspath left out: paths are relative to one cwd)
dump_syms == args[1]

\* self.symbol_path
symbol_path == args[2]

\* lib_folder = args[2]
lib_folder == args[3]

\* lib_name = os.path.basename(lib_folder)
lib_name == Basename(lib_folder)

\* symbol_name = device_name + "-" + lib_name
symbol_name == args[4] \o "-" \o lib_name

\* symbol_folder = args[1] + "/" + lib_name
symbol_folder == args[2] \o "/" \o lib_name

\* output_folder = args[1] + "/zip/" + symbol_name
output_folder == args[2] \o "/zip/" \o symbol_name

\* the dsymbundle argument of Dumper.ProcessFile: file + ".dSYM" from
\* Dumper_Mac.ProcessFile, None ("") from Dumper.Process
dsymbundle == IF platform = "Darwin" THEN lib_folder \o ".dSYM" ELSE ""

\* self.archs, as Dumper.__init__ sets it
RECURSIVE ArchFlags(_)
ArchFlags(names) ==
  IF Len(names) = 0 THEN << >>
  ELSE << "-a " \o Head(names) >> \o ArchFlags(Tail(names))

archs == IF options.archs = NoArchs THEN << "" >> ELSE ArchFlags(Split(options.archs))

\* self.file_mapping: main passes none, so it is {}
file_mapping == << >>

\* os.path.isdir
IsDir(p) == p \in dirs

\* os.path.isfile
IsFile(p) == p \in DOMAIN files

\* os.path.exists
Exists(p) == IsDir(p) \/ IsFile(p)

\* ProcessFileWork's locals at its first line
FreshWork ==
  [ module_line |-> "", guid |-> "", debug_file |-> "", rel_path |-> "",
    full_path |-> "", f_open |-> FALSE, ctors |-> 0, sourceFileStream |-> "",
    code_id |-> "", code_file |-> "", lines_in |-> << >>, stop_iter |-> FALSE ]

\* an uncaught exception ends the process with a traceback and exit code 1
Raise(name) == pc' = "exit" /\ exc' = name /\ exit_code' = 1

(***************************************************************************)
(* Dumper.ProcessFile and Dumper.ProcessFileWork                           *)
(***************************************************************************)

\* SymFileName without the re.sub: the .pdb extension is kept
SymFileNameKeepsPdb(debug_file) == debug_file \o ".sym"

\* sym_file = re.sub("\.pdb$", "", debug_file) + ".sym"
SymFileName(debug_file) == StripPdb(debug_file) \o ".sym"

\* rel_path = os.path.join(debug_file, guid, sym_file).replace("\\", "/")
RelPath(debug_file, guid) ==
  Replace(PathJoin(PathJoin(debug_file, guid), SymFileName(debug_file)), "\\", "/")

\* full_path = os.path.normpath(os.path.join(self.symbol_path, rel_path))
FullPath(rel_path) == normpath(PathJoin(symbol_path, rel_path))

\* (module_line.split())[3:5]
GuidAndDebugFile(module_line) ==
  LET toks == Split(module_line) IN
  SubSeq(toks, 4, IF Len(toks) < 5 THEN Len(toks) ELSE 5)

\* line.rstrip().split(None, 2) of a FILE line
FileLineParts(line) == SplitWs(RStrip(line), 2)

\* filename = normpath(filename), then its self.file_mapping substitute
MappedName(filename) ==
  LET n == normpath(filename) IN
  IF n \in DOMAIN file_mapping THEN file_mapping[n] ELSE n

\* the test that sends a FILE line's name to the hg split
LooksLikeHg(filename) == StartsWith(filename, "hg")

\* "FILE %s %s\n" % (index, filename)
FileLineOut(index, filename) == "FILE " \o index \o " " \o filename \o "\n"

\* IsCtorLine without its elif: the MSVC initializers are not counted
IsCtorLineGccOnly(line) ==
  StartsWith(line, "FUNC ") /\ Contains(line, "_GLOBAL__sub_")

\* the FUNC lines count_ctors counts
IsCtorLine(line) ==
  /\ StartsWith(line, "FUNC ")
  /\ \/ Contains(line, "_GLOBAL__sub_")
     \/ Contains(line, "`dynamic initializer for '")

\* f.write(text)
WriteF(text) == files' = [files EXCEPT ![w.full_path] = Append(@, text)]

\* the statements after the for loop: f.close(), proc.wait(), print(rel_path),
\* proc.stdout gives line at this read ("" at its end): anything in the first
\* run, and what the first run read at the same place when the script is run
\* again on the same input
Feeds(line) ==
  IF run = 1 \/ Len(reads) >= Len(first.reads) THEN TRUE
  ELSE first.reads[Len(reads) + 1] = line

\* SourceServerIndexing (a no-op outside Win32), then CopyDebug for the first
\* architecture when copy_debug is set
AfterLoop(w1) ==
  /\ w' = [w1 EXCEPT !.f_open = FALSE]
  /\ stdout' = Append(stdout, w1.rel_path)
  /\ pc' = IF options.copy_debug /\ arch_num = 0 THEN "CopyDebug" ELSE "pfw_end"

\* OpenW with mode "a": what the file held is kept
OpenA(path) == IF path \in DOMAIN files THEN files[path] ELSE << >>

\* what a file holds right after open(path, "w"): nothing, whatever it held
OpenW(path) == << >>

\* cmd = self.dump_syms_cmdline(...); proc = subprocess.Popen(cmd, ...)
Popen ==
  /\ pc = "ProcessFileWork"
  /\ w' = FreshWork
  /\ IF IsFile(dump_syms)
     THEN /\ invoked' = Append(invoked, archs[arch_num + 1])
          /\ pc' = "module_line"
          /\ UNCHANGED << exc, exit_code, stderr >>
     ELSE \* OSError: caught by "except Exception", printed and raised again
          /\ stderr' = Append(stderr, "Unexpected error: OSError")
          /\ Raise("OSError: dump_syms")
          /\ UNCHANGED invoked
  /\ UNCHANGED << args, options, removed, archive, main_ret, files, dirs,
                  arch_num, perfherder, uploadVars >>
  /\ UNCHANGED << envVars, stdout, calls, reads >>

\* module_line = proc.stdout.next() on an empty stdout: StopIteration, caught
ModuleEOF ==
  /\ pc = "module_line"
  /\ w' = [w EXCEPT !.stop_iter = TRUE]
  /\ stderr' = Append(stderr, "......module_line xxx")
  /\ pc' = "pfw_end"
  /\ UNCHANGED << exc, mainVars, files, dirs, invoked, arch_num, perfherder,
                  uploadVars >>
  /\ Feeds("") /\ reads' = Append(reads, "")
  /\ UNCHANGED << envVars, stdout, calls >>

\* module_line = proc.stdout.next() and the statements up to f.write(module_line)
ModuleLine(lines) ==
  /\ pc = "module_line"
  /\ \E line \in { l \in lines : Feeds(l) } :
       LET w1 == [w EXCEPT !.module_line = line, !.lines_in = << line >>] IN
       IF ~StartsWith(line, "MODULE")
       THEN /\ w' = w1
            /\ pc' = "pfw_end"
            /\ UNCHANGED << exc, exit_code, files, dirs, stderr >>
       ELSE LET gd == GuidAndDebugFile(line) IN
            IF Len(gd) # 2
            THEN \* ValueError from the tuple assignment
                 /\ w' = w1
                 /\ stderr' = Append(stderr, "Unexpected error: ValueError")
                 /\ Raise("ValueError: MODULE line")
                 /\ UNCHANGED << files, dirs >>
            ELSE LET rel  == RelPath(gd[2], gd[1])
                     full == FullPath(rel)
                 IN /\ w' = [w1 EXCEPT !.guid = gd[1], !.debug_file = gd[2],
                                       !.rel_path = rel, !.full_path = full,
                                       !.f_open = TRUE]
                    \* os.makedirs(dirname), "already exists" ignored
                    /\ dirs' = dirs \cup Ancestors(Dirname(full))
                    \* open(full_path, "w"); f.write(module_line)
                    /\ files' = (full :> Append(OpenW(full), line)) @@ files
                    /\ pc' = "lines"
                    /\ UNCHANGED << exc, exit_code, stderr >>
  /\ UNCHANGED << args, options, removed, archive, main_ret, invoked, arch_num,
                  perfherder, uploadVars >>
  /\ reads' = Append(reads, w'.module_line)
  /\ UNCHANGED << envVars, stdout, calls >>

\* one turn of "for line in proc.stdout"
BodyLine(lines, most) ==
  /\ pc = "lines"
  /\ Len(w.lines_in) <= most
  /\ \E line \in { l \in lines : Feeds(l) } :
       LET w1 == [w EXCEPT !.lines_in = Append(@, line)] IN
       IF StartsWith(line, "FILE")
       THEN LET parts == FileLineParts(line) IN
            IF Len(parts) # 3
            THEN /\ w' = w1
                 /\ stderr' = Append(stderr, "Unexpected error: ValueError")
                 /\ Raise("ValueError: FILE line")
                 /\ UNCHANGED << files, stdout >>
            ELSE LET filename == MappedName(parts[3]) IN
                 IF options.vcsinfo
                 THEN \* break
                      /\ stderr' = Append(stderr, "Unexpected error: Not support VCS.")
                      /\ AfterLoop(w1)
                      /\ UNCHANGED << exc, exit_code, files >>
                 ELSE IF LooksLikeHg(filename)
                 THEN LET hg == SplitSep(filename, ":", 3) IN
                      IF Len(hg) # 4
                      THEN /\ w' = w1
                           /\ stderr' = Append(stderr, "Unexpected error: ValueError")
                           /\ Raise("ValueError: hg path")
                           /\ UNCHANGED << files, stdout >>
                      ELSE /\ w' = [w1 EXCEPT !.sourceFileStream =
                                      @ \o parts[3] \o "*" \o hg[3] \o "*" \o hg[4] \o "\r\n"]
                           /\ WriteF(FileLineOut(parts[2], filename))
                           /\ UNCHANGED << pc, exc, exit_code, stderr, stdout >>
                 ELSE /\ w' = w1
                      /\ WriteF(FileLineOut(parts[2], filename))
                      /\ UNCHANGED << pc, exc, exit_code, stderr, stdout >>
       ELSE IF StartsWith(line, "INFO CODE_ID ")
       THEN LET bits == SplitWs(RStrip(line), 3) IN
            /\ w' = IF Len(bits) = 4
                    THEN [w1 EXCEPT !.code_id = bits[3], !.code_file = bits[4]]
                    ELSE w1
            /\ WriteF(line)
            /\ UNCHANGED << pc, exc, exit_code, stderr, stdout >>
       ELSE /\ w' = IF options.count_ctors /\ IsCtorLine(line)
                    THEN [w1 EXCEPT !.ctors = @ + 1]
                    ELSE w1
            /\ WriteF(line)
            /\ UNCHANGED << pc, exc, exit_code, stderr, stdout >>
  /\ UNCHANGED << args, options, removed, archive, main_ret, dirs, invoked,
                  arch_num, perfherder, uploadVars >>
  /\ reads' = Append(reads, w'.lines_in[Len(w'.lines_in)])
  /\ UNCHANGED << envVars, calls >>

\* proc.stdout is exhausted: the for loop ends
BodyEOF ==
  /\ pc = "lines"
  /\ AfterLoop(w)
  /\ UNCHANGED << exc, mainVars, files, dirs, invoked, arch_num, perfherder,
                  stderr, uploadVars >>
  /\ Feeds("") /\ reads' = Append(reads, "")
  /\ UNCHANGED << envVars, calls >>

\* Unlink that removes nothing
KeepFile(fs, path) == fs

\* os.unlink(path): fs without the file at path
Unlink(fs, path) == [p \in DOMAIN fs \ {path} |-> fs[p]]

\* the exit codes of an external tool; NoSuchTool when it cannot be started
\* and subprocess.call raises OSError
ToolCodes == {0, 1, NoSuchTool}

\* file_dbg = file + ".dbg"
file_dbg == lib_folder \o ".dbg"

\* an external command and how it exited, as "calls" records it
Exited(cmd, code) == cmd \o (IF code = 0 THEN ": 0" ELSE ": 1")

\* Dumper_Linux.CopyDebug up to its first subprocess.call: objcopy
\* --only-keep-debug file file_dbg, which writes file_dbg (an objcopy that
\* fails may leave one or not)
Dumper_Linux_CopyDebug(codes) ==
  \E strip \in codes :
    IF strip = NoSuchTool
    THEN \* OSError: caught by "except Exception", printed and raised again
         /\ calls' = calls \o << "CopyDebug", "objcopy --only-keep-debug" >>
         /\ stderr' = Append(stderr, "Unexpected error: OSError")
         /\ Raise("OSError: objcopy")
         /\ UNCHANGED << files, stdout >>
    ELSE /\ calls' = calls \o << "CopyDebug", Exited("objcopy --only-keep-debug", strip) >>
         /\ \E written \in IF strip = 0 THEN {TRUE} ELSE BOOLEAN :
              files' = IF written
                       THEN (file_dbg :> << "debug info of " \o lib_folder >>) @@ files
                       ELSE files
         /\ pc' = IF strip = 0 THEN "debuglink" ELSE "unlink"
         /\ UNCHANGED << exc, exit_code, stderr, stdout >>

\* the second operand of the "and": objcopy --add-gnu-debuglink, and after
\* its 0 the shutil.move into the store, gzip -4 -f and the print
DebugLink(codes) ==
  /\ pc = "debuglink"
  /\ \E link \in codes \ {NoSuchTool} :
       LET rel_path  == PathJoin(PathJoin(w.debug_file, w.guid), w.debug_file \o ".dbg")
           full_path == normpath(PathJoin(symbol_path, rel_path))
       IN IF link # 0
          THEN /\ calls' = Append(calls, Exited("objcopy --add-gnu-debuglink", link))
               /\ pc' = "unlink"
               /\ UNCHANGED << files, stdout >>
          ELSE /\ calls' = calls \o << Exited("objcopy --add-gnu-debuglink", link),
                                       "shutil.move", "gzip" >>
               /\ files' = ((full_path \o ".gz") :> << "gzip of " \o file_dbg >>)
                           @@ Unlink(files, file_dbg)
               /\ stdout' = Append(stdout, rel_path \o ".gz")
               /\ pc' = "pfw_end"
  /\ UNCHANGED << exc, mainVars, dirs, dumpVars, stderr, uploadVars, envVars, reads >>

\* the else branch: "if os.path.isfile(file_dbg): os.unlink(file_dbg)"
UnlinkDbg ==
  /\ pc = "unlink"
  /\ files' = IF IsFile(file_dbg) THEN Unlink(files, file_dbg) ELSE files
  /\ pc' = "pfw_end"
  /\ UNCHANGED << exc, mainVars, dirs, dumpVars, stderr, uploadVars, envVars,
                  stdout, calls, reads >>

\* Dumper_Mac.CopyDebug: tar cjf of the bundle into the store, printed when
\* tar exited 0 and the archive is there
Dumper_Mac_CopyDebug(codes) ==
  LET rel_path  == PathJoin(PathJoin(w.debug_file, w.guid),
                            Basename(dsymbundle) \o ".tar.bz2")
      full_path == normpath(PathJoin(symbol_path, rel_path))
  IN \E success \in codes :
       IF success = NoSuchTool
       THEN /\ calls' = calls \o << "CopyDebug", "tar" >>
            /\ stderr' = Append(stderr, "Unexpected error: OSError")
            /\ Raise("OSError: tar")
            /\ UNCHANGED << files, stdout >>
       ELSE /\ calls' = calls \o << "CopyDebug", "tar" >>
            /\ IF success = 0 /\ IsDir(dsymbundle)
               THEN /\ files' = (full_path :> << "tar cjf of " \o dsymbundle >>) @@ files
                    /\ stdout' = Append(stdout, rel_path)
               ELSE UNCHANGED << files, stdout >>
            /\ pc' = "pfw_end"
            /\ UNCHANGED << exc, exit_code, stderr >>

\* "if self.copy_debug and arch_num == 0: self.CopyDebug(...)", as the
\* dumper's class defines it (Dumper.CopyDebug is "pass")
CopyDebug(codes) ==
  /\ pc = "CopyDebug"
  /\ IF platform = "Linux" THEN Dumper_Linux_CopyDebug(codes)
     ELSE IF platform = "Darwin" THEN Dumper_Mac_CopyDebug(codes)
     ELSE /\ calls' = Append(calls, "CopyDebug")
          /\ pc' = "pfw_end"
          /\ UNCHANGED << exc, exit_code, files, stdout, stderr >>
  /\ UNCHANGED << args, options, removed, archive, main_ret, dirs, dumpVars,
                  uploadVars, envVars, reads >>

\* the end of ProcessFileWork ("if dsymbundle: shutil.rmtree(dsymbundle)", then
\* the PERFHERDER_DATA report) and ProcessFile's next turn, or the return to
\* Process and main
WorkDone ==
  /\ pc = "pfw_end"
  /\ IF dsymbundle # "" /\ ~IsDir(dsymbundle)
     THEN \* shutil.rmtree raises OSError: there is no such directory
          /\ Raise("OSError: rmtree")
          /\ UNCHANGED << files, dirs, arch_num, perfherder >>
     ELSE /\ files' = IF dsymbundle = "" THEN files
                      ELSE [p \in {q \in DOMAIN files : ~Under(q, dsymbundle)} |-> files[p]]
          /\ dirs' = IF dsymbundle = "" THEN dirs
                     ELSE {q \in dirs : ~Under(q, dsymbundle)}
          /\ perfherder' = IF options.count_ctors THEN Append(perfherder, w.ctors)
                           ELSE perfherder
          /\ IF arch_num + 1 < Len(archs)
             THEN arch_num' = arch_num + 1 /\ pc' = "ProcessFileWork"
             ELSE arch_num' = arch_num /\ pc' = "pack"
          /\ UNCHANGED << exc, exit_code >>
  /\ UNCHANGED << args, options, removed, archive, main_ret, invoked, w, stderr,
                  uploadVars >>
  /\ UNCHANGED << envVars, stdout, calls, reads >>

(***************************************************************************)
(* Upload_Symbol                                                           *)
(***************************************************************************)

\* RetrierYields off by one: a turn more than MAX_RETRIES
RetrierYieldsOneMore(n) == n <= MAX_RETRIES

\* redo.retrier(attempts=MAX_RETRIES) yields once more after n turns
RetrierYields(n) == n < MAX_RETRIES

\* BreaksLoop with the wrong class of status codes: 4xx is retried too
BreaksLoopBelow400(status) == status < 400

\* "if r.status_code < 500: break"
BreaksLoop(status) == status < 500

\* "if r.status_code >= 200 and r.status_code < 300"
IsSuccess(status) == status >= 200 /\ status < 300

\* requests.get(secrets_url), res.raise_for_status(), the token
FetchToken ==
  /\ pc = "Upload_Symbol"
  /\ \E ok \in BOOLEAN :
       IF ok THEN pc' = "post" /\ UNCHANGED << exc, exit_code >>
       ELSE Raise("HTTPError: token")
  /\ UNCHANGED << args, options, removed, archive, main_ret, files, dirs,
                  dumpVars, stderr, uploadVars >>
  /\ calls' = Append(calls, "Upload_Symbol")
  /\ UNCHANGED << envVars, stdout, reads >>

\* one turn of the for loop: requests.post and what follows it
Post(outcomes) ==
  /\ pc = "post"
  /\ RetrierYields(i)
  /\ i' = i + 1
  /\ \E outcome \in outcomes :
       /\ posts' = Append(posts, outcome)
       /\ IF outcome = NoResponse
          THEN \* except requests.exceptions.RequestException
               /\ stderr' = Append(stderr, "Error: RequestException")
               /\ UNCHANGED << pc, r >>
          ELSE /\ r' = outcome
               /\ IF BreaksLoop(outcome)
                  THEN pc' = "after_loop" /\ UNCHANGED stderr
                  ELSE stderr' = Append(stderr, "Error: Response") /\ UNCHANGED pc
  /\ UNCHANGED << exc, mainVars, files, dirs, dumpVars, upload_ret >>
  /\ UNCHANGED << envVars, stdout, calls, reads >>

\* the for loop's else: the retrier is exhausted
GiveUp ==
  /\ pc = "post"
  /\ ~RetrierYields(i)
  /\ stderr' = Append(stderr, "Maximun retries hit, giving up!")
  /\ upload_ret' = "False"
  /\ pc' = "uploaded"
  /\ UNCHANGED << exc, mainVars, files, dirs, dumpVars, i, r, posts >>
  /\ UNCHANGED << envVars, stdout, calls, reads >>

\* the statements after the loop was left by break
UploadResult ==
  /\ pc = "after_loop"
  /\ IF IsSuccess(r)
     THEN upload_ret' = "True" /\ UNCHANGED stderr
     ELSE upload_ret' = "False" /\ stderr' = Append(stderr, "Upload symbols failed")
  /\ pc' = "uploaded"
  /\ UNCHANGED << exc, mainVars, files, dirs, dumpVars, i, r, posts >>
  /\ UNCHANGED << envVars, stdout, calls, reads >>

(***************************************************************************)
(* main                                                                    *)
(***************************************************************************)

\* "if options.srcsrv": the check of PDBSTR_PATH
CheckPdbstr ==
  /\ pc = "main"
  /\ IF options.srcsrv /\ ~Exists(PDBSTR_PATH)
     THEN /\ stderr' = Append(stderr, "Invalid path to pdbstr.exe")
          /\ pc' = "exit" /\ exit_code' = 1
     ELSE pc' = "check_args" /\ UNCHANGED << stderr, exit_code >>
  /\ UNCHANGED << exc, args, options, removed, archive, main_ret, files, dirs,
                  dumpVars, uploadVars >>
  /\ UNCHANGED << envVars, stdout, calls, reads >>

\* "if len(args) < 4": parser.error prints the usage and exits with 2
CheckArgs ==
  /\ pc = "check_args"
  /\ IF Len(args) < 4
     THEN /\ stderr' = Append(stderr, "error: not enough arguments")
          /\ pc' = "exit" /\ exit_code' = 2
     ELSE pc' = "clean" /\ UNCHANGED << stderr, exit_code >>
  /\ UNCHANGED << exc, args, options, removed, archive, main_ret, files, dirs,
                  dumpVars, uploadVars >>
  /\ UNCHANGED << envVars, stdout, calls, reads >>

\* the two shutil.rmtree calls on the existing symbol and output folders
RemoveStale ==
  /\ pc = "clean"
  /\ LET gone == {d \in {symbol_folder, output_folder} : IsDir(d)} IN
       /\ removed' = removed \cup gone
       /\ files' = [p \in {q \in DOMAIN files : \A d \in gone : ~Under(q, d)} |-> files[p]]
       /\ dirs' = {q \in dirs : \A d \in gone : ~Under(q, d)}
  /\ pc' = "check_lib"
  /\ UNCHANGED << exc, args, options, archive, main_ret, exit_code, dumpVars,
                  stderr, uploadVars >>
  /\ calls' = calls \o (IF IsDir(symbol_folder) THEN << "rmtree symbol_folder" >> ELSE << >>)
                   \o (IF IsDir(output_folder) THEN << "rmtree output_folder" >> ELSE << >>)
  /\ UNCHANGED << envVars, stdout, reads >>

\* "if not os.path.isfile(lib_folder): raise IOError"
CheckLibrary ==
  /\ pc = "check_lib"
  /\ IF IsFile(lib_folder) THEN pc' = "Process" /\ UNCHANGED << exc, exit_code >>
     ELSE Raise("IOError: The library file not found")
  /\ UNCHANGED << args, options, removed, archive, main_ret, files, dirs,
                  dumpVars, stderr, uploadVars >>
  /\ UNCHANGED << envVars, stdout, calls, reads >>

\* what file(1) prints about a file it cannot open
CannotOpen == "cannot open (Permission denied)"

\* what running file(1) on file gives: its description of the file, with fault
\* "unreadable" its message that the file cannot be opened, and with fault
\* "no file utility" nothing at all
FileOutput(file, fault) ==
  IF fault = "unreadable" THEN CannotOpen
  ELSE IF fault = "no file utility" THEN ""
  ELSE files[file][1]

\* RunFileCommand raises: read_output's subprocess.Popen finds no file
\* utility. Dumper_Solaris.RunFileCommand catches everything and returns ""
RunFileCommandRaises(fault) == fault = "no file utility" /\ platform # "SunOS"

\* the extension and the magic ShouldProcess looks for
Extension == IF platform = "Darwin" THEN ".dylib" ELSE ".so"
Magic == IF platform = "Darwin" THEN "Mach-O" ELSE "ELF"

\* ShouldProcess of Dumper_Linux, Dumper_Solaris and Dumper_Mac on the output
\* of RunFileCommand. os.access(file, os.X_OK) is taken to fail: no file but
\* a tool is executable
ShouldProcess(file, output) ==
  IF EndsWith(file, Extension) THEN StartsWith(output, Magic) ELSE FALSE

\* dumper.Process(lib_folder, count_ctors): ShouldProcess, then ProcessFile
\* (on Mac, Dumper_Mac.ProcessFile and its GenerateDSYM)
Process(faults) ==
  /\ pc = "Process"
  /\ arch_num' = 0
  /\ \E fault \in faults :
       IF EndsWith(lib_folder, Extension) /\ RunFileCommandRaises(fault)
       THEN /\ calls' = calls \o << "ShouldProcess", "file(1) failed" >>
            /\ Raise("OSError: file")
       ELSE LET go == ShouldProcess(lib_folder, FileOutput(lib_folder, fault)) IN
            /\ calls' = calls \o << "ShouldProcess" >>
                              \o (IF EndsWith(lib_folder, Extension) /\ fault # "none"
                                  THEN << "file(1) failed" >> ELSE << >>)
                              \o (IF go THEN << "ProcessFile" >> ELSE << >>)
            /\ pc' = IF ~go THEN "pack"
                     ELSE IF platform = "Darwin" THEN "GenerateDSYM"
                     ELSE "ProcessFileWork"
            /\ UNCHANGED << exc, exit_code >>
  /\ UNCHANGED << args, options, removed, archive, main_ret, files, dirs,
                  invoked, w, perfherder, stderr, uploadVars >>
  /\ UNCHANGED << envVars, stdout, reads >>

\* Dumper_Mac.GenerateDSYM: an existing bundle is removed, then
\* "buildconfig.substs['DSYMUTIL']" raises NameError: no module of that name
\* is imported
GenerateDSYM ==
  /\ pc = "GenerateDSYM"
  /\ files' = [p \in {q \in DOMAIN files : ~Under(q, dsymbundle)} |-> files[p]]
  /\ dirs' = {q \in dirs : ~Under(q, dsymbundle)}
  /\ Raise("NameError: buildconfig")
  /\ UNCHANGED << args, options, removed, archive, main_ret, dumpVars, stderr,
                  uploadVars, envVars, stdout, calls, reads >>

\* path with its leading src replaced by dst
Reroot(path, src, dst) == dst \o From(path, Len(src) + 1)

\* CopyError with the OSError swallowed: main goes on to make_archive
CopyErrorPassed == pc' = "make_archive" /\ UNCHANGED << exc, exit_code >>

\* "except OSError as e: raise IOError(errno.ENOENT, "Directory not copied", e)"
CopyError == Raise("IOError: Directory not copied")

\* the two os.mkdir calls and shutil.copytree(symbol_folder, output_folder/lib_name)
CopyTree ==
  /\ pc = "pack"
  /\ LET dst    == output_folder \o "/" \o lib_name
         made   == {symbol_path \o "/zip", output_folder}
         copied == {q \in DOMAIN files : Under(q, symbol_folder)}
     IN IF ~IsDir(symbol_folder)
        THEN \* OSError from copytree, raised again as IOError
             /\ dirs' = dirs \cup made
             /\ CopyError
             /\ UNCHANGED files
        ELSE /\ dirs' = dirs \cup made
                        \cup {Reroot(d, symbol_folder, dst) :
                                d \in {q \in dirs : Under(q, symbol_folder)}}
             /\ files' = [p \in DOMAIN files \cup {Reroot(q, symbol_folder, dst) : q \in copied} |->
                            IF \E q \in copied : Reroot(q, symbol_folder, dst) = p
                            THEN files[CHOOSE q \in copied : Reroot(q, symbol_folder, dst) = p]
                            ELSE files[p]]
             /\ pc' = "make_archive"
             /\ UNCHANGED << exc, exit_code >>
  /\ UNCHANGED << args, options, removed, archive, main_ret, dumpVars, stderr,
                  uploadVars >>
  /\ calls' = Append(calls, "copytree")
  /\ UNCHANGED << envVars, stdout, reads >>

\* shutil.make_archive(output_folder, "zip", output_folder)
MakeArchive ==
  /\ pc = "make_archive"
  /\ LET members == {q \in DOMAIN files : Under(q, output_folder) /\ q # output_folder} IN
       /\ archive' = [m \in {Reroot(q, output_folder \o "/", "") : q \in members} |->
                        files[output_folder \o "/" \o m]]
       /\ files' = ((output_folder \o ".zip") :> << "zip of " \o output_folder >>) @@ files
  /\ pc' = "Upload_Symbol"
  /\ UNCHANGED << exc, args, options, removed, main_ret, exit_code, dirs,
                  dumpVars, stderr, uploadVars >>
  /\ calls' = Append(calls, "make_archive")
  /\ UNCHANGED << envVars, stdout, reads >>

\* "if not Upload_Symbol(...): return 1", else main falls off its end
MainReturn ==
  /\ pc = "uploaded"
  /\ main_ret' = IF upload_ret = "False" THEN "1" ELSE "None"
  /\ pc' = "returned"
  /\ UNCHANGED << exc, args, options, removed, archive, exit_code, files, dirs,
                  dumpVars, stderr, uploadVars >>
  /\ UNCHANGED << envVars, stdout, calls, reads >>

\* the script's last statement, "main()": the interpreter then exits
ScriptExit ==
  /\ pc = "returned"
  /\ exit_code' = 0
  /\ pc' = "exit"
  /\ UNCHANGED << exc, args, options, removed, archive, main_ret, files, dirs,
                  dumpVars, stderr, uploadVars >>
  /\ UNCHANGED << envVars, stdout, calls, reads >>

(***************************************************************************)
(* Initial states and specifications                                       *)
(***************************************************************************)

\* the directories holding the files of fs
DirsOf(fs) == UNION {Ancestors(Dirname(p)) : p \in DOMAIN fs}

\* the dump_syms binary
ToolFile == "bin/dump_syms" :> << "ELF 64-bit LSB executable" >>

\* the library, as file(1) describes it
LibElf == "obj/lib.so" :> << "ELF 32-bit LSB shared object, ARM" >>

\* a file named like the library that is no ELF file
LibText == "obj/lib.so" :> << "ASCII text" >>

\* pdbstr.exe at PDBSTR_PATH
PdbstrFile == PDBSTR_PATH :> << "PE32 executable" >>

\* what an earlier run left in the symbol store
StaleFiles ==
  ("out/lib.so/G0/lib.so.sym" :> << "MODULE Linux arm G0 lib.so\n" >>)
  @@ ("out/zip/dev-lib.so/lib.so/G0/lib.so.sym" :> << "MODULE Linux arm G0 lib.so\n" >>)
  @@ ("out/zip/dev-lib.so.zip" :> << "zip of out/zip/dev-lib.so" >>)

\* the file systems main is started on
MainFileSystems ==
  { ToolFile @@ LibElf @@ PdbstrFile,
    ToolFile @@ LibElf @@ PdbstrFile @@ StaleFiles,
    ToolFile @@ LibElf @@ StaleFiles,
    LibElf @@ PdbstrFile @@ StaleFiles,
    ToolFile @@ PdbstrFile @@ StaleFiles,
    ToolFile @@ LibText @@ PdbstrFile }

\* optparse's defaults
DefaultOptions ==
  [ copy_debug |-> FALSE, vcsinfo |-> FALSE, count_ctors |-> FALSE,
    srcsrv |-> FALSE, archs |-> NoArchs ]

\* the command lines main is started with: no option, then each option alone
MainOptions ==
  { DefaultOptions,
    [DefaultOptions EXCEPT !.copy_debug = TRUE],
    [DefaultOptions EXCEPT !.vcsinfo = TRUE],
    [DefaultOptions EXCEPT !.count_ctors = TRUE],
    [DefaultOptions EXCEPT !.srcsrv = TRUE],
    [DefaultOptions EXCEPT !.archs = "arm x86"],
    [DefaultOptions EXCEPT !.copy_debug = TRUE, !.archs = "arm x86"] }

\* the first lines dump_syms prints in a run of main
MainModuleLines == { "MODULE Linux arm G1 lib.so\n", "MODULE Linux arm\n",
                     "dump_syms: no debug info\n" }

\* the later lines dump_syms prints in a run of main
MainBodyLines == { "FILE 0 src//a.c\n", "FUNC 10 4 0 _GLOBAL__sub_I_a\n" }

\* the answers the symbol server gives in a run of main
MainOutcomes == { 200, 404, 503 }

\* what "first" holds until the script is run again
NoFirstRun == [reads |-> << >>, files |-> << >>, exc |-> "", exit_code |-> 0]

\* what is the same at the start of every specification
InitCommon ==
  /\ exc = "" /\ exit_code = 0
  /\ removed = {} /\ invoked = << >> /\ arch_num = 0 /\ w = FreshWork
  /\ stderr = << >> /\ perfherder = << >> /\ archive = << >>
  /\ i = 0 /\ r = NoResponse /\ posts = << >> /\ upload_ret = "" /\ main_ret = ""
  /\ stdout = << >> /\ calls = << >> /\ reads = << >>
  /\ run = 1 /\ first = NoFirstRun

\* the script is started
Init ==
  /\ InitCommon
  /\ pc = "main"
  /\ platform = "Linux"
  /\ args \in {GoodArgs, SubSeq(GoodArgs, 1, 3)}
  /\ options \in MainOptions
  /\ files \in MainFileSystems
  /\ dirs = DirsOf(files)

Next ==
  \/ CheckPdbstr \/ CheckArgs \/ RemoveStale \/ CheckLibrary \/ Process({"none"})
  \/ Popen \/ ModuleEOF \/ ModuleLine(MainModuleLines) \/ BodyLine(MainBodyLines, MaxBody)
  \/ BodyEOF \/ CopyDebug(ToolCodes) \/ DebugLink(ToolCodes) \/ UnlinkDbg \/ WorkDone
  \/ CopyTree \/ MakeArchive
  \/ FetchToken \/ Post(MainOutcomes) \/ GiveUp \/ UploadResult
  \/ MainReturn \/ ScriptExit

\* the whole script
Spec == Init /\ [][Next]_vars

\* the script has ended and is started again with the same command line, on
\* the file system the first run left
Rerun ==
  /\ pc = "exit" /\ run = 1
  /\ run' = 2
  /\ first' = [reads |-> reads, files |-> files, exc |-> exc, exit_code |-> exit_code]
  /\ pc' = "main"
  /\ exc' = "" /\ exit_code' = 0
  /\ removed' = {} /\ invoked' = << >> /\ arch_num' = 0 /\ w' = FreshWork
  /\ stderr' = << >> /\ perfherder' = << >> /\ archive' = << >>
  /\ i' = 0 /\ r' = NoResponse /\ posts' = << >> /\ upload_ret' = "" /\ main_ret' = ""
  /\ stdout' = << >> /\ calls' = << >> /\ reads' = << >>
  /\ UNCHANGED << args, options, files, dirs, platform >>

\* the first lines of the runs that are repeated: MainModuleLines and a module
\* whose debug file is not the library's name
TwiceModuleLines ==
  MainModuleLines \cup { "MODULE windows x86 G2 app.pdb\n" }

TwiceNext ==
  \/ CheckPdbstr \/ CheckArgs \/ RemoveStale \/ CheckLibrary \/ Process({"none"})
  \/ Popen \/ ModuleEOF \/ ModuleLine(TwiceModuleLines) \/ BodyLine(MainBodyLines, MaxBody)
  \/ BodyEOF \/ CopyDebug({0, 1}) \/ DebugLink({0, 1}) \/ UnlinkDbg \/ WorkDone
  \/ CopyTree \/ MakeArchive
  \/ FetchToken \/ Post(MainOutcomes) \/ GiveUp \/ UploadResult
  \/ MainReturn \/ ScriptExit
  \/ Rerun

\* the script is started for one architecture
TwiceInit == Init /\ options.archs = NoArchs

\* the script run twice on the same input
SpecTwice == TwiceInit /\ [][TwiceNext]_vars

\* Dumper.ProcessFile is called on the library of a Dumper made with any
\* combination of copy_debug, vcsinfo and count_ctors
DumpInit ==
  /\ InitCommon
  /\ pc = "ProcessFileWork"
  /\ platform = "Linux"
  /\ args = GoodArgs
  /\ options \in [ copy_debug : BOOLEAN, vcsinfo : BOOLEAN, count_ctors : BOOLEAN,
                   srcsrv : {FALSE}, archs : {NoArchs} ]
  /\ files \in {ToolFile @@ LibElf, LibElf}
  /\ dirs = DirsOf(files)

DumpNext ==
  \/ Popen \/ ModuleEOF \/ ModuleLine(ModuleLines) \/ BodyLine(BodyLines, MaxBody)
  \/ BodyEOF \/ CopyDebug({0, 1}) \/ DebugLink({0, 1}) \/ UnlinkDbg \/ WorkDone

\* one call of ProcessFile
SpecDump == DumpInit /\ [][DumpNext]_vars

\* the most lines after the first that dump_syms prints where constructors
\* are counted
MaxCtorLines == 3

\* the later lines dump_syms prints where constructors are counted: the two
\* kinds of static constructor, a plain function, and a PUBLIC record that
\* carries a constructor's name
CtorBodyLines ==
  { "FUNC 10 4 0 _GLOBAL__sub_I_a\n",
    "FUNC 20 4 0 `dynamic initializer for 'x'\n",
    "FUNC 30 4 0 f\n",
    "PUBLIC 40 0 _GLOBAL__sub_I_b\n" }

CtorsNext ==
  \/ Popen \/ ModuleEOF \/ ModuleLine(MainModuleLines)
  \/ BodyLine(CtorBodyLines, MaxCtorLines)
  \/ BodyEOF \/ CopyDebug({0, 1}) \/ DebugLink({0, 1}) \/ UnlinkDbg \/ WorkDone

\* one call of ProcessFile on a library with static constructors
SpecCtors == DumpInit /\ [][CtorsNext]_vars

\* the command line for a Mac library
MacArgs == << "bin/dump_syms", "out", "obj/lib.dylib", "dev" >>

\* the Mac library, as file(1) describes it
LibMachO == "obj/lib.dylib" :> << "Mach-O 64-bit dynamically linked shared library" >>

\* the dSYM bundle of the Mac library
Bundle == "obj/lib.dylib.dSYM/Contents/Info.plist" :> << "plist" >>

\* what may go wrong when file(1) is run
FileFaults == { "none", "unreadable", "no file utility" }

\* Process is called on a dumper of any of the three classes, or
\* Dumper.ProcessFile is called with a dSYM bundle as Dumper_Mac.ProcessFile
\* calls it
PlatformInit ==
  /\ InitCommon
  /\ platform \in { "Linux", "SunOS", "Darwin" }
  /\ pc \in IF platform = "Darwin" THEN { "Process", "ProcessFileWork" }
            ELSE { "Process" }
  /\ args = IF platform = "Darwin" THEN MacArgs ELSE GoodArgs
  /\ options \in [ copy_debug : BOOLEAN, vcsinfo : {FALSE}, count_ctors : BOOLEAN,
                   srcsrv : {FALSE}, archs : {NoArchs, "arm x86"} ]
  /\ files \in IF platform # "Darwin" THEN { ToolFile @@ LibElf, ToolFile @@ LibText }
               ELSE IF pc = "Process"
               THEN { ToolFile @@ LibMachO, ToolFile @@ LibMachO @@ Bundle }
               ELSE { ToolFile @@ LibMachO @@ Bundle }
  /\ dirs = DirsOf(files)

PlatformNext ==
  \/ Process(FileFaults) \/ GenerateDSYM
  \/ Popen \/ ModuleEOF \/ ModuleLine(MainModuleLines) \/ BodyLine(MainBodyLines, MaxBody)
  \/ BodyEOF \/ CopyDebug(ToolCodes) \/ DebugLink(ToolCodes) \/ UnlinkDbg \/ WorkDone

\* one call of Process or ProcessFile on every platform's dumper
SpecPlatform == PlatformInit /\ [][PlatformNext]_vars

\* Upload_Symbol is called on the zip file
UploadInit ==
  /\ InitCommon
  /\ pc = "Upload_Symbol"
  /\ platform = "Linux"
  /\ args = GoodArgs
  /\ options = DefaultOptions
  /\ files = ("out/zip/dev-lib.so.zip" :> << "zip of out/zip/dev-lib.so" >>)
  /\ dirs = DirsOf(files)

UploadNext == FetchToken \/ Post(PostOutcomes) \/ GiveUp \/ UploadResult

\* one call of Upload_Symbol
SpecUpload == UploadInit /\ [][UploadNext]_vars

(***************************************************************************)
(* Properties                                                              *)
(***************************************************************************)

\* a first line that starts with MODULE and has the os, cpu, guid and
\* debug_file tokens after it
WellFormedModule(line) == StartsWith(line, "MODULE") /\ Len(Split(line)) >= 5

\* symbol_path/debug_file/guid/<debug_file without a trailing .pdb>.sym
ExpectedSymPath(line) ==
  LET t    == Split(line)
      name == IF EndsWith(t[5], ".pdb") THEN SubSeq(t[5], 1, Len(t[5]) - 4) ELSE t[5]
  IN symbol_path \o "/" \o t[5] \o "/" \o t[4] \o "/" \o name \o ".sym"

\* the current call of ProcessFileWork is past its for loop, or was left by
\* an exception
WorkEnded == pc \in {"CopyDebug", "debuglink", "unlink", "pfw_end", "pack", "exit"}

\* C1: once ProcessFileWork has read a well-formed MODULE line, the symbol
\* file exists at symbol_path/debug_file/guid/<debug_file without .pdb>.sym
\* and its first line is that MODULE line verbatim.
C1_SymFileAtKeyedPath ==
  WellFormedModule(w.module_line) =>
    /\ w.full_path = ExpectedSymPath(w.module_line)
    /\ IsFile(ExpectedSymPath(w.module_line))
    /\ files[ExpectedSymPath(w.module_line)][1] = w.module_line

\* C1's case: a dump of a .pdb debug file was written to its end
C1_Witness ==
  /\ pc = "pfw_end"
  /\ WellFormedModule(w.module_line)
  /\ EndsWith(w.debug_file, ".pdb")
  /\ IsFile(w.full_path)
  /\ Len(files[w.full_path]) = MaxBody + 1

\* C2: after ProcessFileWork ends, normally or by an error, the .sym file it
\* opened is complete: it starts with a well-formed MODULE line and holds
\* every line read from the dumper.
C2_NoPartialSymFile ==
  (WorkEnded /\ w.full_path # "") =>
    /\ IsFile(w.full_path)
    /\ WellFormedModule(files[w.full_path][1])
    /\ Len(files[w.full_path]) = Len(w.lines_in)

\* C3: when the dumper's stdout is empty, ProcessFileWork writes no .sym file
\* and the run goes on through Process and main's packaging without an
\* unhandled error (a failure to fetch the upload token is not about the file).
C3_EmptyDumpContinues ==
  w.stop_iter =>
    /\ w.full_path = ""
    /\ exc \in {"", "HTTPError: token"}

\* the current call of ProcessFileWork failed on the dumper's first line:
\* there was none, or it was no well-formed MODULE line
DumpFailed ==
  \/ w.stop_iter
  \/ (w.module_line # "" /\ ~WellFormedModule(w.module_line))

\* C4: a dump that fails on its first line (empty output, no MODULE line, a
\* MODULE line of fewer than five tokens) leaves no symbol output, and
\* ProcessFile still runs the dumper for every architecture: the process
\* does not end before all of them were run.
C4_DumpFailureIsContained ==
  DumpFailed =>
    /\ w.full_path = ""
    /\ (pc = "exit" => Len(invoked) = Len(archs))

\* C5: Upload_Symbol never makes more than MAX_RETRIES POST attempts; four
\* 503 answers followed by a 200 end in success after exactly five attempts;
\* five 503 answers end in failure.
C5_UploadRetryBound ==
  /\ i <= MAX_RETRIES /\ Len(posts) = i
  /\ (posts = << 503, 503, 503, 503, 200 >> =>
        /\ i = MAX_RETRIES
        /\ pc \in {"after_loop", "uploaded"}
        /\ (pc = "uploaded" => upload_ret = "True"))
  /\ (posts = << 503, 503, 503, 503, 503 >> =>
        /\ pc \in {"post", "uploaded"}
        /\ (pc = "uploaded" => upload_ret = "False"))

\* C5's case: the fifth attempt succeeded after four 503 answers
C5_Witness ==
  pc = "uploaded" /\ posts = << 503, 503, 503, 503, 200 >> /\ upload_ret = "True"

\* the status of the last response received, NoResponse when there was none
RECURSIVE LastResponse(_)
LastResponse(outcomes) ==
  IF Len(outcomes) = 0 THEN NoResponse
  ELSE IF outcomes[Len(outcomes)] # NoResponse THEN outcomes[Len(outcomes)]
  ELSE LastResponse(SubSeq(outcomes, 1, Len(outcomes) - 1))

\* C6: every POST but the last ended in a 5xx response or a transport
\* exception; after a response below 500 there is no further attempt; and
\* Upload_Symbol returns True exactly when the last response received has a
\* status in [200,300).
C6_UploadOutcome ==
  /\ \A k \in 1 .. Len(posts) - 1 :
       posts[k] = NoResponse \/ (posts[k] >= 500 /\ posts[k] <= 599)
  /\ (Len(posts) > 0 /\ posts[Len(posts)] # NoResponse /\ posts[Len(posts)] < 500)
       => pc \in {"after_loop", "uploaded"}
  /\ pc = "uploaded" =>
       (upload_ret = "True" <=>
          (LastResponse(posts) >= 200 /\ LastResponse(posts) < 300))

\* C6's case: a success on a retry that followed a transport exception
C6_Witness ==
  /\ pc = "uploaded" /\ upload_ret = "True"
  /\ Len(posts) >= 2
  /\ posts[Len(posts) - 1] = NoResponse

\* C7: when Upload_Symbol returned False the script ends with exit code 1 and
\* without an exception.
C7_UploadFailureExitsOne ==
  (pc = "exit" /\ upload_ret = "False") => (exit_code = 1 /\ exc = "")

\* the process ended on a missing prerequisite: an invalid pdbstr path, too
\* few arguments, or no dump_syms binary
MissingPrerequisite ==
  /\ pc = "exit"
  /\ \/ exc = "OSError: dump_syms"
     \/ (Len(stderr) > 0 /\ stderr[Len(stderr)] \in
           {"Invalid path to pdbstr.exe", "error: not enough arguments"})

\* C8: a process that ends on a missing prerequisite exits non-zero before
\* any work: no directory was removed and no dumper was run.
C8_PrerequisiteBeforeWork ==
  MissingPrerequisite =>
    /\ exit_code # 0
    /\ removed = {}
    /\ invoked = << >>

\* the hg:checkout:path:revision convention
MatchesHgConvention(path) ==
  LET f == SplitSep(path, ":", -1) IN Len(f) = 4 /\ f[1] = "hg"

\* C9: every FILE line read whose path does not follow the hg convention is
\* in the .sym file at the position it was read at, as a FILE line with the
\* same index.
C9_FileLinesKeepIndex ==
  \A k \in 2 .. Len(w.lines_in) :
    LET parts == FileLineParts(w.lines_in[k]) IN
    (StartsWith(w.lines_in[k], "FILE ") /\ Len(parts) = 3
       /\ ~MatchesHgConvention(parts[3])) =>
      /\ Len(files[w.full_path]) >= k
      /\ Len(FileLineParts(files[w.full_path][k])) = 3
      /\ FileLineParts(files[w.full_path][k])[1] = "FILE"
      /\ FileLineParts(files[w.full_path][k])[2] = parts[2]

\* C10: the .sym file holds as many lines as were read from the dumper, in
\* the order read, and every line that is no FILE line is in it unchanged.
C10_LinesForwardedInOrder ==
  w.full_path # "" =>
    /\ Len(files[w.full_path]) = Len(w.lines_in)
    /\ \A k \in 1 .. Len(w.lines_in) :
         ~StartsWith(w.lines_in[k], "FILE") => files[w.full_path][k] = w.lines_in[k]

\* a line that carries one of the two static-constructor names
MatchesCtorConvention(line) ==
  Contains(line, "_GLOBAL__sub_") \/ Contains(line, "`dynamic initializer for '")

\* the number of lines of a stream that satisfy Test
CountLines(lines, Test(_)) ==
  Cardinality({ k \in 1..Len(lines) : Test(lines[k]) })

\* a FUNC line that carries one of the two static-constructor names
IsFuncCtor(line) == StartsWith(line, "FUNC ") /\ MatchesCtorConvention(line)

\* ProcessFileWork has just ended with its report printed
Reported == pc \in {"ProcessFileWork", "pack"} /\ Len(perfherder) > 0

\* C11 as stated: the count reported at the end of ProcessFileWork is the
\* number of lines read that match either static-constructor convention.
C11_CountsMatchingLines ==
  Reported => perfherder[Len(perfherder)] = CountLines(w.lines_in, MatchesCtorConvention)

\* C11 as amended: the count reported is the number of FUNC lines read that
\* match either convention (2 of the first and 1 of the second report 3);
\* without count_ctors nothing is reported; a stream without a match reports 0.
C11_CountsFuncCtorLines ==
  /\ Reported => perfherder[Len(perfherder)] = CountLines(w.lines_in, IsFuncCtor)
  /\ (pc = "pack" /\ options.count_ctors) => Len(perfherder) = Len(invoked)
  /\ ~options.count_ctors => perfherder = << >>

\* C11's case: two _GLOBAL__sub_ lines and one dynamic initializer, reported as 3
C11_Witness ==
  /\ pc = "pack"
  /\ perfherder = << 3 >>
  /\ CountLines(w.lines_in, LAMBDA l : Contains(l, "_GLOBAL__sub_")) = 2
  /\ CountLines(w.lines_in, LAMBDA l : Contains(l, "`dynamic initializer for '")) = 1

\* the .sym files of a file system
SymFiles(fs) == { p \in DOMAIN fs : EndsWith(p, ".sym") }

\* how a run ended, the upload (which depends on the server) left aside
OutcomeBeforeUpload(e) == IF e = "HTTPError: token" THEN "" ELSE e

\* C12: when the script is run again on the same input, every .sym file the
\* first run left is there again at the same path with the same bytes, and
\* the second run fails only as the first did: the directory
\* symbol_path/debug_file/guid being there already makes no difference.
C12_RerunIsIdempotent ==
  (run = 2 /\ pc = "exit") =>
     /\ \A p \in SymFiles(first.files) : p \in DOMAIN files /\ files[p] = first.files[p]
     /\ OutcomeBeforeUpload(exc) = OutcomeBeforeUpload(first.exc)

\* C12's case: the second run has written its .sym file into a directory the
\* first run had left with that file in it
C12_Witness ==
  /\ run = 2 /\ pc = "exit"
  /\ w.full_path \in SymFiles(first.files)
  /\ Len(first.files[w.full_path]) > 1
  /\ files[w.full_path] = first.files[w.full_path]
  /\ "rmtree symbol_folder" \notin { calls[k] : k \in 1..Len(calls) }

\* C13: the dumper invocation of a later architecture never overwrites the
\* lines an earlier invocation wrote: no step of a later architecture's
\* ProcessFileWork removes or changes a line of a .sym file that is there.
C13_LaterArchKeepsEarlierLines ==
  [][ (arch_num > 0 /\ pc \in {"module_line", "lines"}) =>
        \A p \in SymFiles(files) :
          /\ p \in DOMAIN files'
          /\ Len(files'[p]) >= Len(files[p])
          /\ SubSeq(files'[p], 1, Len(files[p])) = files[p] ]_vars

\* C14: on Mac the dSYM bundle is there while the dumper of every
\* architecture runs, and once ProcessFile has ended, normally or by an
\* error of a dump or copy step, it has been removed.
C14_BundleLifetime ==
  platform = "Darwin" =>
     /\ pc \in {"module_line", "lines"} => IsDir(dsymbundle)
     /\ (pc \in {"pack", "exit"} /\ Len(invoked) > 0) => ~IsDir(dsymbundle)

\* the entries of calls
Called == { calls[k] : k \in 1..Len(calls) }

\* Dumper_Linux.CopyDebug has been called and has returned
CopyDebugReturned ==
  /\ platform = "Linux"
  /\ "CopyDebug" \in Called
  /\ pc \in {"pfw_end", "ProcessFileWork", "pack"}

\* symbol_path/debug_file/guid/<debug_file>.dbg for the module line read
ExpectedDbgPath(line) ==
  LET t == Split(line)
  IN symbol_path \o "/" \o t[5] \o "/" \o t[4] \o "/" \o t[5] \o ".dbg"

\* the files of the store that hold debug info
DebugFilesInStore ==
  { p \in DOMAIN files : Under(p, symbol_path) /\ (EndsWith(p, ".dbg") \/ EndsWith(p, ".dbg.gz")) }

\* C15: in Dumper_Linux.CopyDebug the debug-link objcopy runs only right after
\* the strip objcopy exited 0; when either exited non-zero nothing is added to
\* the store; when both exited 0 the .dbg file was moved to
\* symbol_path/debug_file/guid/<debug_file>.dbg and gzipped there; and once
\* CopyDebug has returned there is no <file>.dbg next to the binary.
C15_LinuxCopyDebug ==
  /\ \A k \in 1..Len(calls) :
       calls[k] \in { Exited("objcopy --add-gnu-debuglink", c) : c \in {0, 1} }
         => k > 1 /\ calls[k - 1] = Exited("objcopy --only-keep-debug", 0)
  /\ CopyDebugReturned =>
       /\ ~IsFile(file_dbg)
       /\ IF Exited("objcopy --add-gnu-debuglink", 0) \in Called
          THEN /\ DebugFilesInStore = { ExpectedDbgPath(w.module_line) \o ".gz" }
               /\ SubSeq(calls, Len(calls) - 1, Len(calls)) = << "shutil.move", "gzip" >>
          ELSE DebugFilesInStore = {}

\* C15's case: CopyDebug returned after both objcopy calls exited 0
C15_Witness ==
  /\ CopyDebugReturned
  /\ Exited("objcopy --add-gnu-debuglink", 0) \in Called
  /\ (ExpectedDbgPath(w.module_line) \o ".gz") \in DOMAIN files

\* CopyDebug returned after the debug-link objcopy exited non-zero
C15_WitnessFailed ==
  /\ CopyDebugReturned
  /\ Exited("objcopy --add-gnu-debuglink", 1) \in Called
  /\ ~IsFile(file_dbg)

\* C16: a debug-info copy that failed is logged, and no step of CopyDebug
\* raises: the step that handles the failure prints something, and a step
\* taken inside CopyDebug leaves no exception propagating.
C16_CopyFailureLoggedAndContained ==
  [][ /\ pc = "unlink" => (stderr' # stderr \/ stdout' # stdout)
      /\ pc \in {"CopyDebug", "debuglink", "unlink"} => exc' = "" ]_vars

\* C17: when the magic-byte check itself fails (no file utility, or a file
\* that cannot be read), ShouldProcess lets a fatal error propagate on every
\* platform: Process is left by an exception and the file is not skipped.
C17_FailedCheckIsFatal ==
  "file(1) failed" \in Called => (pc = "exit" /\ exc = "OSError: file")

\* the stage of main an entry of calls belongs to: 1 the removal of the
\* stale directories, 2 the classifier, 3 the dumper, 4 the copy, 5 the zip,
\* 6 the upload
StageOf(c) ==
  IF c \in {"rmtree symbol_folder", "rmtree output_folder"} THEN 1
  ELSE IF c \in {"ShouldProcess", "file(1) failed"} THEN 2
  ELSE IF c = "copytree" THEN 4
  ELSE IF c = "make_archive" THEN 5
  ELSE IF c = "Upload_Symbol" THEN 6
  ELSE 3

\* the entries of calls that start a stage of main
MainStages ==
  { "rmtree symbol_folder", "rmtree output_folder", "ShouldProcess", "ProcessFile",
    "copytree", "make_archive", "Upload_Symbol" }

\* C18: in every run of main the stages come in the order removal of stale
\* directories, classifier, dumper, copy, zip, upload, each at most once; the
\* dumper runs only when the classifier was asked, and the uploader is called
\* only when the copy and the zip are there.
C18_StagesInOrder ==
  /\ \A k \in 1..(Len(calls) - 1) : StageOf(calls[k]) <= StageOf(calls[k + 1])
  /\ \A c \in MainStages : Cardinality({ k \in 1..Len(calls) : calls[k] = c }) <= 1
  /\ "ProcessFile" \in Called => "ShouldProcess" \in Called
  /\ "Upload_Symbol" \in Called =>
       /\ { "ShouldProcess", "copytree", "make_archive" } \subseteq Called
       /\ IsDir(output_folder \o "/" \o lib_name)
       /\ IsFile(output_folder \o ".zip")
       /\ archive # << >>

\* C18's case: a run of main that went through all six stages
C18_Witness ==
  /\ pc = "exit" /\ run = 1
  /\ MainStages \subseteq Called
  /\ Len(posts) > 0

\* C19: CopyDebug is invoked at most once per processed file, only with
\* copy_debug set, only in the call for architecture 0, and only when that
\* architecture's .sym file is closed and holds a well-formed MODULE line and
\* every line the dumper printed up to the end of its output.
C19_CopyDebugOnceAfterFullDump ==
  /\ Cardinality({ k \in 1..Len(calls) : calls[k] = "CopyDebug" }) <= 1
  /\ "CopyDebug" \in Called => options.copy_debug
  /\ pc = "CopyDebug" =>
       /\ arch_num = 0
       /\ ~w.f_open
       /\ IsFile(w.full_path)
       /\ WellFormedModule(files[w.full_path][1])
       /\ reads[Len(reads)] = ""
       /\ Len(files[w.full_path]) = Len(w.lines_in)

====
